---- MODULE Spec2Model ----
(***************************************************************************)
(* Model of FunctionalGraph (src/src/lib.rs): the construction             *)
(* FunctionalGraph::new = successor table, init_cycles, init_sources, and  *)
(* the read-only queries kth_succ and path_from.                           *)
(*                                                                         *)
(* Vectors indexed by vertex are functions on 0..n-1; cycle_reprs and      *)
(* cycle_lens are sequences, so the entry of cycle id `id` is at id + 1.   *)
(***************************************************************************)
EXTENDS Integers, Sequences, FiniteSets, TLC

\* Largest vertex count explored.
MaxN == 4
\* Small step counts 0..MaxK, and large ones BigK..BigK+MaxK, given to kth_succ.
MaxK == 3
BigK == 2000000000
\* usize::MAX, scaled to the largest integer the model checker represents.
USIZE_MAX == 2147483647

VARIABLES n, succs, cycle_reprs, cycle_lens, cycle_ids, noncycle_lens,
          cycle_id_nxt, states, start, path, walk_v, end, cycle_repr,
          cycle_len, cycle_id, ncl, is_sources, sources, src_i, pc,
          pushes, via, how, q

vars == <<n, succs, cycle_reprs, cycle_lens, cycle_ids, noncycle_lens,
          cycle_id_nxt, states, start, path, walk_v, end, cycle_repr,
          cycle_len, cycle_id, ncl, is_sources, sources, src_i, pc,
          pushes, via, how, q>>

Vertices == 0 .. (n - 1)

KValues == (0 .. MaxK) \cup { BigK + d : d \in 0 .. MaxK }

NoQuery == [op |-> "none", v |-> 0, k |-> 0, k_opt |-> 0, underflow |-> FALSE,
            result |-> 0, items |-> << >>]

----------------------------------------------------------------------------
(* Helpers of init_cycles *)

\* while states[v] == State::Unvisited
WalkContinues_twoState(x) == states[x] # "Visiting"

WalkContinues(x) == states[x] = "Unvisited"

\* cycle_repr = cycle_repr.min(v)
ReprMin_last(r, x) == x

ReprMin(r, x) == IF x < r THEN x ELSE r

\* cycle_len += 1 (before the `if v == end` test)
CycleLenStep_afterBreak(l, x) == IF x = end THEN l ELSE l + 1

CycleLenStep(l, x) == l + 1

\* states[v] = State::Visited in the cycle-popping loop
PopState_stale(x) == states[x]

PopState(x) == "Visited"

\* State::Visited arm: (cycle_ids[end], noncycle_lens[end])
MergeSeed_zero(e) == <<cycle_ids[e], 0>>

MergeSeed(e) == <<cycle_ids[e], noncycle_lens[e]>>

\* ncl += 1; noncycle_lens[v] = ncl
TailLen_postInc(l) == l

TailLen(l) == l + 1

----------------------------------------------------------------------------
(* Helpers of init_sources *)

\* is_sources[succ] = false, for the successor of vertex u
ClearSource_skipSelf(flags, u) ==
    IF succs[u] = u THEN flags ELSE [flags EXCEPT ![succs[u]] = FALSE]

ClearSource(flags, u) == [flags EXCEPT ![succs[u]] = FALSE]

\* (0..n).filter(|&v| is_sources[v]).collect(), scanning vertices lo, lo+1, ..
RECURSIVE FilterSources(_, _)
FilterSources(flags, lo) ==
    IF lo >= n THEN << >>
    ELSE IF flags[lo] THEN <<lo>> \o FilterSources(flags, lo + 1)
         ELSE FilterSources(flags, lo + 1)

----------------------------------------------------------------------------
(* Accessors *)

cycle_count == Len(cycle_reprs)

cycles == cycle_reprs

cycle_of(x) == cycle_reprs[cycle_ids[x] + 1]

cycle_len_of(x) == cycle_lens[cycle_ids[x] + 1]

noncycle_len_of(x) == noncycle_lens[x]

source_count == Len(sources)

is_source(x) == is_sources[x]

\* Indexing cycle_reprs / cycle_lens with cycle_ids[x] stays in bounds.
AccessorInBounds(x) ==
    /\ cycle_ids[x] < Len(cycle_reprs)
    /\ cycle_ids[x] < Len(cycle_lens)

----------------------------------------------------------------------------
(* Queries *)

\* usize subtraction: wraps on underflow (release build)
USub(a, b) == IF a >= b THEN a - b ELSE USIZE_MAX - (b - a) + 1

\* k_opt of kth_succ
KOpt_noTail(k, l, cl) == [steps |-> k % cl, underflow |-> FALSE]

KOpt(k, l, cl) ==
    IF k >= l
    THEN [steps |-> l + (USub(k, l) % cl), underflow |-> k < l]
    ELSE [steps |-> k, underflow |-> FALSE]

\* (0..k_opt).fold(v, |v, _| self.succs[v])
RECURSIVE Fold(_, _)
Fold(x, cnt) == IF cnt = 0 THEN x ELSE Fold(succs[x], cnt - 1)

\* count of path_from
PathCount_offByOne(x) == noncycle_len_of(x) + cycle_len_of(x) + 1

PathCount(x) == noncycle_len_of(x) + cycle_len_of(x)

\* std::iter::successors(Some(v), |&v| Some(self.succs[v])).take(count)
RECURSIVE Take(_, _)
Take(x, cnt) == IF cnt = 0 THEN << >> ELSE <<x>> \o Take(succs[x], cnt - 1)

----------------------------------------------------------------------------
(* Construction: FunctionalGraph::new *)

Init ==
    /\ n \in 0 .. MaxN
    /\ succs \in [0 .. (n - 1) -> 0 .. (n - 1)]
    /\ cycle_reprs = << >>
    /\ cycle_lens = << >>
    /\ cycle_ids = [x \in 0 .. (n - 1) |-> USIZE_MAX]
    /\ noncycle_lens = [x \in 0 .. (n - 1) |-> USIZE_MAX]
    /\ cycle_id_nxt = 0
    /\ states = [x \in 0 .. (n - 1) |-> "Unvisited"]
    /\ start = 0
    /\ path = << >>
    /\ walk_v = 0
    /\ end = 0
    /\ cycle_repr = USIZE_MAX
    /\ cycle_len = 0
    /\ cycle_id = 0
    /\ ncl = 0
    /\ is_sources = [x \in 0 .. (n - 1) |-> TRUE]
    /\ sources = << >>
    /\ src_i = 0
    /\ pc = "for"
    /\ pushes = [x \in 0 .. (n - 1) |-> 0]
    /\ via = [x \in 0 .. (n - 1) |-> "none"]
    /\ how = "none"
    /\ q = NoQuery

\* for start in 0..n: states[start] != Unvisited => continue
ForSkip ==
    /\ pc = "for"
    /\ start < n
    /\ states[start] # "Unvisited"
    /\ IF states[start] = "Visiting"
       THEN pc' = "panic" /\ start' = start
       ELSE pc' = "for" /\ start' = start + 1
    /\ UNCHANGED <<n, succs, cycle_reprs, cycle_lens, cycle_ids, noncycle_lens,
                   cycle_id_nxt, states, path, walk_v, end, cycle_repr,
                   cycle_len, cycle_id, ncl, is_sources, sources, src_i,
                   pushes, via, how, q>>

\* for start in 0..n: an Unvisited start opens a new path
ForBegin ==
    /\ pc = "for"
    /\ start < n
    /\ states[start] = "Unvisited"
    /\ path' = << >>
    /\ walk_v' = start
    /\ pc' = "walk"
    /\ UNCHANGED <<n, succs, cycle_reprs, cycle_lens, cycle_ids, noncycle_lens,
                   cycle_id_nxt, states, start, end, cycle_repr,
                   cycle_len, cycle_id, ncl, is_sources, sources, src_i,
                   pushes, via, how, q>>

\* one iteration of the walk loop
WalkStep ==
    /\ pc = "walk"
    /\ WalkContinues(walk_v)
    /\ path' = Append(path, walk_v)
    /\ pushes' = [pushes EXCEPT ![walk_v] = @ + 1]
    /\ states' = [states EXCEPT ![walk_v] = "Visiting"]
    /\ walk_v' = succs[walk_v]
    /\ UNCHANGED <<n, succs, cycle_reprs, cycle_lens, cycle_ids, noncycle_lens,
                   cycle_id_nxt, start, end, cycle_repr,
                   cycle_len, cycle_id, ncl, is_sources, sources, src_i, pc,
                   via, how, q>>

\* the walk stops at end; match states[end]
WalkEnd ==
    /\ pc = "walk"
    /\ ~ WalkContinues(walk_v)
    /\ end' = walk_v
    /\ CASE states[walk_v] = "Visiting" ->
                /\ cycle_repr' = USIZE_MAX
                /\ cycle_len' = 0
                /\ how' = "new"
                /\ pc' = "cycle"
                /\ UNCHANGED <<cycle_id, ncl>>
         [] states[walk_v] = "Visited" ->
                /\ cycle_id' = MergeSeed(walk_v)[1]
                /\ ncl' = MergeSeed(walk_v)[2]
                /\ how' = IF noncycle_lens[walk_v] = 0 THEN "merged_cycle"
                                                       ELSE "merged_tail"
                /\ pc' = "unwind"
                /\ UNCHANGED <<cycle_repr, cycle_len>>
         [] OTHER ->
                /\ pc' = "panic"
                /\ UNCHANGED <<cycle_repr, cycle_len, cycle_id, ncl, how>>
    /\ UNCHANGED <<n, succs, cycle_reprs, cycle_lens, cycle_ids, noncycle_lens,
                   cycle_id_nxt, states, start, path, walk_v,
                   is_sources, sources, src_i, pushes, via, q>>

\* one iteration of the cycle-popping loop
PopCycle ==
    /\ pc = "cycle"
    /\ IF path = << >>
       THEN /\ pc' = "panic"
            /\ UNCHANGED <<path, states, cycle_ids, noncycle_lens, cycle_repr,
                           cycle_len, via>>
       ELSE LET x == path[Len(path)] IN
            /\ path' = SubSeq(path, 1, Len(path) - 1)
            /\ states' = [states EXCEPT ![x] = PopState(x)]
            /\ cycle_ids' = [cycle_ids EXCEPT ![x] = cycle_id_nxt]
            /\ noncycle_lens' = [noncycle_lens EXCEPT ![x] = 0]
            /\ cycle_repr' = ReprMin(cycle_repr, x)
            /\ cycle_len' = CycleLenStep(cycle_len, x)
            /\ via' = [via EXCEPT ![x] = "cycle"]
            /\ pc' = IF x = end THEN "push" ELSE "cycle"
    /\ UNCHANGED <<n, succs, cycle_reprs, cycle_lens, cycle_id_nxt, start,
                   walk_v, end, cycle_id, ncl, is_sources, sources, src_i,
                   pushes, how, q>>

\* the new cycle is added to the cycle list
PushCycle ==
    /\ pc = "push"
    /\ IF cycle_len = 0
       THEN /\ pc' = "panic"
            /\ UNCHANGED <<cycle_reprs, cycle_lens, cycle_id, cycle_id_nxt, ncl>>
       ELSE /\ cycle_reprs' = Append(cycle_reprs, cycle_repr)
            /\ cycle_lens' = Append(cycle_lens, cycle_len)
            /\ cycle_id' = cycle_id_nxt
            /\ cycle_id_nxt' = cycle_id_nxt + 1
            /\ ncl' = 0
            /\ pc' = "unwind"
    /\ UNCHANGED <<n, succs, cycle_ids, noncycle_lens, states, start, path,
                   walk_v, end, cycle_repr, cycle_len, is_sources, sources,
                   src_i, pushes, via, how, q>>

\* while let Some(v) = path.pop()
Unwind ==
    /\ pc = "unwind"
    /\ path # << >>
    /\ LET x == path[Len(path)] IN
       /\ path' = SubSeq(path, 1, Len(path) - 1)
       /\ states' = [states EXCEPT ![x] = "Visited"]
       /\ ncl' = ncl + 1
       /\ cycle_ids' = [cycle_ids EXCEPT ![x] = cycle_id]
       /\ noncycle_lens' = [noncycle_lens EXCEPT ![x] = TailLen(ncl)]
       /\ via' = [via EXCEPT ![x] = how]
    /\ UNCHANGED <<n, succs, cycle_reprs, cycle_lens, cycle_id_nxt, start,
                   walk_v, end, cycle_repr, cycle_len, cycle_id, is_sources,
                   sources, src_i, pc, pushes, how, q>>

\* path is empty: next iteration of the outer loop
UnwindEnd ==
    /\ pc = "unwind"
    /\ path = << >>
    /\ start' = start + 1
    /\ pc' = "for"
    /\ UNCHANGED <<n, succs, cycle_reprs, cycle_lens, cycle_ids, noncycle_lens,
                   cycle_id_nxt, states, path, walk_v, end, cycle_repr,
                   cycle_len, cycle_id, ncl, is_sources, sources, src_i,
                   pushes, via, how, q>>

\* init_cycles returns; init_sources starts with is_sources = vec![true; n]
ForEnd ==
    /\ pc = "for"
    /\ start = n
    /\ is_sources' = [x \in Vertices |-> TRUE]
    /\ src_i' = 0
    /\ pc' = "sources"
    /\ UNCHANGED <<n, succs, cycle_reprs, cycle_lens, cycle_ids, noncycle_lens,
                   cycle_id_nxt, states, start, path, walk_v, end, cycle_repr,
                   cycle_len, cycle_id, ncl, sources, pushes, via, how, q>>

\* for &succ in succs { is_sources[succ] = false }
SourcesClear ==
    /\ pc = "sources"
    /\ src_i < n
    /\ is_sources' = ClearSource(is_sources, src_i)
    /\ src_i' = src_i + 1
    /\ UNCHANGED <<n, succs, cycle_reprs, cycle_lens, cycle_ids, noncycle_lens,
                   cycle_id_nxt, states, start, path, walk_v, end, cycle_repr,
                   cycle_len, cycle_id, ncl, sources, pc, pushes, via, how, q>>

\* sources are collected and the FunctionalGraph value is built
SourcesCollect ==
    /\ pc = "sources"
    /\ src_i = n
    /\ sources' = FilterSources(is_sources, 0)
    /\ pc' = "ready"
    /\ UNCHANGED <<n, succs, cycle_reprs, cycle_lens, cycle_ids, noncycle_lens,
                   cycle_id_nxt, states, start, path, walk_v, end, cycle_repr,
                   cycle_len, cycle_id, ncl, is_sources, src_i, pushes, via,
                   how, q>>

----------------------------------------------------------------------------
(* Queries on the constructed graph *)

kth_succ ==
    /\ pc = "ready"
    /\ \E x \in Vertices, k \in KValues :
          LET o == KOpt(k, noncycle_len_of(x), cycle_len_of(x)) IN
          q' = [op |-> "kth_succ", v |-> x, k |-> k, k_opt |-> o.steps,
                underflow |-> o.underflow, result |-> Fold(x, o.steps),
                items |-> << >>]
    /\ UNCHANGED <<n, succs, cycle_reprs, cycle_lens, cycle_ids, noncycle_lens,
                   cycle_id_nxt, states, start, path, walk_v, end, cycle_repr,
                   cycle_len, cycle_id, ncl, is_sources, sources, src_i, pc,
                   pushes, via, how>>

path_from ==
    /\ pc = "ready"
    /\ \E x \in Vertices :
          q' = [op |-> "path_from", v |-> x, k |-> 0, k_opt |-> 0,
                underflow |-> FALSE, result |-> 0,
                items |-> Take(x, PathCount(x))]
    /\ UNCHANGED <<n, succs, cycle_reprs, cycle_lens, cycle_ids, noncycle_lens,
                   cycle_id_nxt, states, start, path, walk_v, end, cycle_repr,
                   cycle_len, cycle_id, ncl, is_sources, sources, src_i, pc,
                   pushes, via, how>>

Build ==
    \/ ForSkip
    \/ ForBegin
    \/ WalkStep
    \/ WalkEnd
    \/ PopCycle
    \/ PushCycle
    \/ Unwind
    \/ UnwindEnd
    \/ ForEnd
    \/ SourcesClear
    \/ SourcesCollect

Next ==
    \/ ForSkip
    \/ ForBegin
    \/ WalkStep
    \/ WalkEnd
    \/ PopCycle
    \/ PushCycle
    \/ Unwind
    \/ UnwindEnd
    \/ ForEnd
    \/ SourcesClear
    \/ SourcesCollect
    \/ kth_succ
    \/ path_from

Spec == Init /\ [][Next]_vars

\* new() is a sequential computation: an enabled construction step is taken.
LiveSpec == Init /\ [][Next]_vars /\ WF_vars(Build)

----------------------------------------------------------------------------
(* Reference notions of the functional graph, defined from succs alone *)

\* succ applied k times, one step at a time
RECURSIVE Iter(_, _)
Iter(x, k) == IF k = 0 THEN x ELSE Iter(succs[x], k - 1)

\* succ^k by repeated squaring (for large k); a map on Vertices is held as
\* the tuple of its values, the value at x being element x + 1
RECURSIVE ComposeFrom(_, _, _)
ComposeFrom(a, b, j) ==
    IF j > Len(a) THEN << >>
    ELSE <<b[a[j] + 1]>> \o ComposeFrom(a, b, j + 1)

Compose(a, b) == ComposeFrom(a, b, 1)

RECURSIVE Power(_, _)
Power(a, k) ==
    IF k = 0 THEN [j \in 1 .. Len(a) |-> j - 1]
    ELSE IF k % 2 = 0 THEN Power(Compose(a, a), k \div 2)
         ELSE Compose(a, Power(a, k - 1))

SuccPower(x, k) == Power([j \in 1 .. n |-> succs[j - 1]], k)[x + 1]

OnCycle(u) == \E k \in 1 .. n : Iter(u, k) = u

\* the vertices of the unique cycle reached from x
CycleFrom(x) == { u \in { Iter(x, k) : k \in 0 .. n } : OnCycle(u) }

AllCycles == { CycleFrom(x) : x \in Vertices }

SetMin(S) == CHOOSE m \in S : \A u \in S : m <= u

\* least k with succ^k(x) on a cycle
TailDist(x) ==
    CHOOSE k \in 0 .. n :
        /\ OnCycle(Iter(x, k))
        /\ \A j \in 0 .. (k - 1) : ~ OnCycle(Iter(x, j))

InDegreeZero == { x \in Vertices : ~ \E u \in Vertices : succs[u] = x }

Adjacent(x) == {succs[x]} \cup { u \in Vertices : succs[u] = x }

RECURSIVE WeakClosure(_)
WeakClosure(S) ==
    LET T == S \cup UNION { Adjacent(x) : x \in S }
    IN  IF T = S THEN S ELSE WeakClosure(T)

WeakComponents == { WeakClosure({x}) : x \in Vertices }

RECURSIVE SeqSum(_)
SeqSum(s) == IF s = << >> THEN 0 ELSE s[1] + SeqSum(Tail(s))

SeqRange(s) == { s[j] : j \in 1 .. Len(s) }

Constructed == pc = "ready"

----------------------------------------------------------------------------
(* Claims *)

\* C1: after new, cycle_of(v) is the minimum vertex of the cycle reached from
\* v: it lies on that cycle and is <= every vertex of it, however v was
\* classified (new cycle, merge into a cycle, merge into a tail).
C1_ReprIsCycleMin ==
    Constructed =>
        \A x \in Vertices :
            /\ AccessorInBounds(x)
            /\ cycle_of(x) = SetMin(CycleFrom(x))
            /\ cycle_of(x) \in CycleFrom(x)
            /\ \A u \in CycleFrom(x) : cycle_of(x) <= u

C1_Witness ==
    /\ Constructed
    /\ \E x \in Vertices : via[x] = "cycle" /\ cycle_of(x) # x
    /\ \E x \in Vertices : via[x] = "merged_cycle"
    /\ \E x \in Vertices : via[x] = "merged_tail"

\* C2: noncycle_len_of(v) is the least k with succ^k(v) on a cycle; it is 0
\* exactly for cycle vertices and otherwise noncycle_len_of(succ(v)) + 1,
\* also when the walk of v merged into a tail vertex.
C2_TailLength ==
    Constructed =>
        \A x \in Vertices :
            /\ noncycle_len_of(x) = TailDist(x)
            /\ (noncycle_len_of(x) = 0) <=> OnCycle(x)
            /\ ~ OnCycle(x) =>
                  noncycle_len_of(x) = noncycle_len_of(succs[x]) + 1

C2_Witness ==
    /\ Constructed
    /\ \E x \in Vertices :
          /\ via[x] = "merged_tail"
          /\ via[succs[x]] # "merged_tail"
          /\ noncycle_len_of(succs[x]) > 0
          /\ noncycle_len_of(x) >= 2

\* C3: cycle_len_of(v) >= 1 is the number of vertices of the cycle reached
\* from v, i.e. the least L >= 1 with succ^L(w) = w for w = succ^t(v),
\* t = noncycle_len_of(v); a self-loop has length 1.
C3_CycleLength ==
    Constructed =>
        \A x \in Vertices :
            /\ AccessorInBounds(x)
            /\ cycle_len_of(x) >= 1
            /\ cycle_len_of(x) = Cardinality(CycleFrom(x))
            /\ LET w == Iter(x, TailDist(x)) IN
                  /\ Iter(w, cycle_len_of(x)) = w
                  /\ \A L \in 1 .. (cycle_len_of(x) - 1) : Iter(w, L) # w
            /\ succs[x] = x => cycle_len_of(x) = 1

C3_Witness ==
    /\ Constructed
    /\ \E x \in Vertices : succs[x] = x /\ cycle_len_of(x) = 1
    /\ \E x \in Vertices : noncycle_len_of(x) > 0 /\ cycle_len_of(x) >= 2

\* C4: kth_succ(v, k) is succ applied k times to v, for small and for very
\* large k; the step count used is k when k < noncycle_len_of(v) and
\* noncycle_len_of(v) + ((k - noncycle_len_of(v)) mod cycle_len_of(v))
\* otherwise, without underflow and below noncycle_len_of(v) + cycle_len_of(v).
C4_KthSucc ==
    (Constructed /\ q.op = "kth_succ") =>
        LET t  == TailDist(q.v)
            cl == Cardinality(CycleFrom(q.v))
        IN  /\ q.result = SuccPower(q.v, q.k)
            /\ q.k <= MaxK => q.result = Iter(q.v, q.k)
            /\ q.k_opt = IF q.k < t THEN q.k ELSE t + ((q.k - t) % cl)
            /\ ~ q.underflow
            /\ q.k_opt < t + cl

C4_Witness ==
    /\ Constructed
    /\ q.op = "kth_succ"
    /\ q.k >= BigK
    /\ noncycle_len_of(q.v) >= 2
    /\ cycle_len_of(q.v) >= 2
    /\ q.result # q.v
    /\ q.result # cycle_of(q.v)

\* C5: path_from(v) starts at v, each later element is succ of the previous
\* one, its length is noncycle_len_of(v) + cycle_len_of(v), its elements are
\* pairwise distinct and every vertex of v's cycle occurs exactly once; succ
\* of the last element is the first cycle vertex reached from v.
C5_PathFrom ==
    (Constructed /\ q.op = "path_from") =>
        LET s == q.items IN
            /\ Len(s) = noncycle_len_of(q.v) + cycle_len_of(q.v)
            /\ Len(s) = TailDist(q.v) + Cardinality(CycleFrom(q.v))
            /\ s[1] = q.v
            /\ \A j \in 2 .. Len(s) : s[j] = succs[s[j - 1]]
            /\ \A j, l \in 1 .. Len(s) : s[j] = s[l] => j = l
            /\ \A u \in CycleFrom(q.v) :
                  Cardinality({ j \in 1 .. Len(s) : s[j] = u }) = 1
            /\ succs[s[Len(s)]] = Iter(q.v, TailDist(q.v))

C5_Witness ==
    /\ Constructed
    /\ q.op = "path_from"
    /\ noncycle_len_of(q.v) >= 1
    /\ cycle_len_of(q.v) >= 2
    /\ Len(q.items) >= 3

\* C6: is_source(v) iff no vertex has v as successor (a self-loop vertex is
\* never a source); sources() lists exactly those vertices in strictly
\* ascending order; source_count() is their number.
C6_Sources ==
    Constructed =>
        /\ \A x \in Vertices : is_source(x) <=> x \in InDegreeZero
        /\ \A x \in Vertices : succs[x] = x => ~ is_source(x)
        /\ \A j \in 1 .. (Len(sources) - 1) : sources[j] < sources[j + 1]
        /\ SeqRange(sources) = InDegreeZero
        /\ source_count = Cardinality(InDegreeZero)

C6_Witness ==
    /\ Constructed
    /\ source_count >= 2
    /\ \E x \in Vertices : succs[x] = x
    /\ \E x \in Vertices : ~ is_source(x) /\ succs[x] # x

\* C7: the cycle list has exactly one entry per cycle of the graph: the
\* representatives are pairwise distinct, they are the minima of the cycles,
\* and cycle_count() is the number of cycles, which is the number of weakly
\* connected components.
C7_CycleList ==
    Constructed =>
        /\ \A j, l \in 1 .. Len(cycles) : cycles[j] = cycles[l] => j = l
        /\ SeqRange(cycles) = { SetMin(C) : C \in AllCycles }
        /\ cycle_count = Cardinality(AllCycles)
        /\ cycle_count = Cardinality(WeakComponents)
        /\ Len(cycle_lens) = cycle_count

C7_Witness ==
    /\ Constructed
    /\ cycle_count >= 2
    /\ \E x \in Vertices : via[x] = "merged_cycle"
    /\ \E x \in Vertices : via[x] = "merged_tail"

\* C8: the cycle lengths of the cycle list sum, together with the number of
\* vertices of non-zero tail length, to n.
C8_Partition ==
    Constructed =>
        SeqSum(cycle_lens)
          + Cardinality({ x \in Vertices : noncycle_len_of(x) > 0 }) = n

C8_Witness ==
    /\ Constructed
    /\ n >= 3
    /\ cycle_count >= 2
    /\ \E x \in Vertices : noncycle_len_of(x) > 0
    /\ \E j \in 1 .. Len(cycle_lens) : cycle_lens[j] >= 2

\* C9: during init_cycles every vertex is pushed onto the path at most once
\* and its state only moves Unvisited -> Visiting -> Visited, each step once;
\* the Visiting vertices are exactly those on the path, and at the head of
\* the outer loop no vertex is Visiting.
C9_StateInv ==
    /\ \A x \in Vertices :
          /\ pushes[x] <= 1
          /\ (pushes[x] = 0) <=> (states[x] = "Unvisited")
          /\ (states[x] = "Visiting") <=> (x \in SeqRange(path))
    /\ pc = "for" => \A x \in Vertices : states[x] # "Visiting"
    /\ (pc = "for" /\ start = n) =>
          \A x \in Vertices : states[x] = "Visited" /\ pushes[x] = 1

C9_StateStep ==
    \A x \in Vertices :
        states'[x] # states[x] =>
            \/ states[x] = "Unvisited" /\ states'[x] = "Visiting"
            \/ states[x] = "Visiting" /\ states'[x] = "Visited"

C9_Marking == [] C9_StateInv /\ [][C9_StateStep]_vars

C9_Witness ==
    /\ pc = "walk"
    /\ Len(path) >= 2
    /\ states[walk_v] = "Visited"
    /\ pushes[walk_v] = 1

\* C10: construction terminates: a walk stops at a Visiting or Visited
\* vertex, the cycle-popping loop finds end on the path, no expect or
\* unreachable branch fires, and at the end every vertex is Visited with
\* cycle_ids[v] < cycle_count and a tail length, so every accessor succeeds.
C10_Safe ==
    /\ pc # "panic"
    /\ (pc = "walk" /\ ~ WalkContinues(walk_v)) =>
          states[walk_v] \in {"Visiting", "Visited"}
    /\ pc = "cycle" => end \in SeqRange(path)
    /\ pc = "push" => cycle_len >= 1
    /\ Constructed =>
          \A x \in Vertices :
              /\ states[x] = "Visited"
              /\ cycle_ids[x] < cycle_count
              /\ AccessorInBounds(x)
              /\ noncycle_lens[x] # USIZE_MAX
              /\ noncycle_lens[x] < n
              /\ is_sources[x] \in BOOLEAN

C10_Terminates == [] C10_Safe /\ <> Constructed

C10_Witness ==
    /\ Constructed
    /\ n = 3
    /\ cycle_count = 1
    /\ \E x \in Vertices : noncycle_len_of(x) = 2

====
